---- MODULE Spec2Model ----
(***************************************************************************)
(* Model of drillan/j-reit-finder: the scoring engine                      *)
(* (src/j_reit_finder/stock_selector.py) and the Streamlit front end       *)
(* (src/app.py).                                                           *)
(*                                                                         *)
(* Numbers.  The engine computes in IEEE doubles.  Here a number is an     *)
(* exact rational [n |-> numerator, d |-> denominator] in lowest terms,    *)
(* d > 0; the three non-finite doubles are d = 0: NaN = 0/0,               *)
(* +inf = 1/0, -inf = -1/0.  Division by zero, NaN propagation and NaN     *)
(* comparison follow IEEE/numpy; rounding error is not modelled.           *)
(*                                                                         *)
(* Tables.  A DataFrame is [columns, index, rows]: the set of column       *)
(* names, the row labels in row order, and the rows, each a function from  *)
(* the column names to cells.  A numeric cell is a number; a non-numeric   *)
(* cell (a Python str) is [s |-> k].                                       *)
(*                                                                         *)
(* Column names (the source's are Japanese):                               *)
(*   "yield" 分配金利回り      "nav" NAV倍率          "age" 平均築年数     *)
(*   "buildings" 棟数          "ltv" 有利子負債比率                        *)
(*   "roe" 自己資本利益率（ROE） "cap" 時価総額(円)    "assets" 資産規模(円)*)
(*   "yield_score" 分配金利回りスコア   "nav_score" NAV倍率スコア          *)
(*   "portfolio_score" ポートフォリオ質スコア                              *)
(*   "financial_score" 財務健全性スコア                                    *)
(*   "market_score" 市場ポジションスコア   "total" 総合スコア              *)
(***************************************************************************)
EXTENDS Integers, Sequences, FiniteSets, TLC

VARIABLES
    heap,       \* object id -> DataFrame: the frames alive in the caller
    weights,    \* JREITSelector.weights (a ScoringWeights)
    ret,        \* object id of the frame select_stocks returned, 0 = none
    exc,        \* "none", or the exception the last call raised
    called,     \* whether select_stocks has been called on the selector
    last_n,     \* top_n of the last call
    column,     \* normalize_column / nav score: the column under test
    ascending,  \* normalize_column's `ascending` argument
    series,     \* the pd.Series a sub-score function returned
    pc,         \* app.main: position in the script
    sliders,    \* app.main: the five weight sliders, in slider steps
    shown,      \* app.main: what the page shows
    runs        \* app.main: number of script runs so far

vars == <<heap, weights, ret, exc, called, last_n, column, ascending, series,
          pc, sliders, shown, runs>>

----------------------------------------------------------------------------
(* Bounds of the model                                                     *)

MaxRows == 3
MaxLen == 3
MaxVal == 3
MaxNav == 6
NavDen == 4
MaxRuns == 3

----------------------------------------------------------------------------
(* Numbers: float64 as exact rationals plus NaN and the infinities         *)

RECURSIVE GCD(_, _)
GCD(a, b) == IF b = 0 THEN a ELSE GCD(b, a % b)

AbsInt(k) == IF k < 0 THEN 0 - k ELSE k

SignInt(k) == IF k < 0 THEN 0 - 1 ELSE IF k > 0 THEN 1 ELSE 0

NaN == [n |-> 0, d |-> 0]

Rat(p, q) ==
    IF q = 0 THEN [n |-> SignInt(p), d |-> 0]
    ELSE LET g == GCD(AbsInt(p), AbsInt(q))
             s == IF q < 0 THEN 0 - 1 ELSE 1
         IN  [n |-> (s * p) \div g, d |-> (s * q) \div g]

Zero == Rat(0, 1)
One == Rat(1, 1)
Two == Rat(2, 1)

IsNaN(a) == a.d = 0 /\ a.n = 0
IsFinite(a) == a.d > 0

Add(a, b) ==
    IF IsNaN(a) \/ IsNaN(b) THEN NaN
    ELSE IF a.d = 0 /\ b.d = 0 THEN (IF a.n = b.n THEN a ELSE NaN)
    ELSE IF a.d = 0 THEN a
    ELSE IF b.d = 0 THEN b
    ELSE Rat(a.n * b.d + b.n * a.d, a.d * b.d)

Neg(a) == [n |-> 0 - a.n, d |-> a.d]

Sub(a, b) == Add(a, Neg(b))

Mul(a, b) ==
    IF IsNaN(a) \/ IsNaN(b) THEN NaN
    ELSE IF a.d = 0 \/ b.d = 0 THEN Rat(SignInt(a.n) * SignInt(b.n), 0)
    ELSE Rat(a.n * b.n, a.d * b.d)

\* numpy float division: x/0 is +-inf, 0/0 is NaN, no exception
Div(a, b) ==
    IF IsNaN(a) \/ IsNaN(b) THEN NaN
    ELSE IF a.d = 0 /\ b.d = 0 THEN NaN
    ELSE IF b.d = 0 THEN Zero
    ELSE IF a.d = 0 THEN Rat(a.n * (IF b.n < 0 THEN 0 - 1 ELSE 1), 0)
    ELSE Rat(a.n * b.d, a.d * b.n)

AbsR(a) == [n |-> AbsInt(a.n), d |-> a.d]

\* a <= b as IEEE compares: false when either side is NaN
Leq(a, b) ==
    /\ ~IsNaN(a)
    /\ ~IsNaN(b)
    /\ IF a.d = 0 /\ b.d = 0 THEN a.n <= b.n ELSE a.n * b.d <= b.n * a.d

Geq(a, b) == Leq(b, a)
Lt(a, b) == Leq(a, b) /\ a # b
Gt(a, b) == Lt(b, a)

----------------------------------------------------------------------------
(* pandas: Series and DataFrame as far as the engine uses them             *)

Min2(a, b) == IF a <= b THEN a ELSE b

IsNumeric(cell) == "n" \in DOMAIN cell

Str(k) == [s |-> k]

\* a computed Series, or the exception its computation raised
Ok(v) == [exc |-> "none", v |-> v]
Raise(e) == [exc |-> e, v |-> <<>>]

getitem_or_nan(df, c) ==
    Ok([i \in 1..Len(df.rows) |->
          IF c \in df.columns THEN df.rows[i][c] ELSE NaN])

\* df[column]: KeyError when the frame has no such column
getitem(df, c) ==
    IF c \in df.columns
    THEN Ok([i \in 1..Len(df.rows) |-> df.rows[i][c]])
    ELSE Raise("KeyError")

AllNumeric(s) == \A i \in 1..Len(s) : IsNumeric(s[i])

NotNaNValues(s) == {s[i] : i \in {j \in 1..Len(s) : ~IsNaN(s[j])}}

MinOf(vals) ==
    IF vals = {} THEN NaN ELSE CHOOSE m \in vals : \A x \in vals : Leq(m, x)

MaxOf(vals) ==
    IF vals = {} THEN NaN ELSE CHOOSE m \in vals : \A x \in vals : Leq(x, m)

\* Series.min() / Series.max(): NaN cells are skipped, NaN when none is left
SeriesMin(s) == MinOf(NotNaNValues(s))

SeriesMax(s) == MaxOf(NotNaNValues(s))

\* elementwise arithmetic of two results, the first exception winning
SeriesAdd(a, b) ==
    IF a.exc # "none" THEN a
    ELSE IF b.exc # "none" THEN b
    ELSE Ok([i \in 1..Len(a.v) |-> Add(a.v[i], b.v[i])])

SeriesSub(a, b) ==
    IF a.exc # "none" THEN a
    ELSE IF b.exc # "none" THEN b
    ELSE Ok([i \in 1..Len(a.v) |-> Sub(a.v[i], b.v[i])])

SeriesDiv(a, b) ==
    IF a.exc # "none" THEN a
    ELSE IF b.exc # "none" THEN b
    ELSE Ok([i \in 1..Len(a.v) |-> Div(a.v[i], b.v[i])])

\* a scalar broadcast to the shape of a
Const(k, a) ==
    IF a.exc # "none" THEN a ELSE Ok([i \in 1..Len(a.v) |-> k])

\* arithmetic on a column: a str cell makes it raise TypeError
Numeric(col) ==
    IF col.exc # "none" THEN col
    ELSE IF AllNumeric(col.v) THEN col
    ELSE Raise("TypeError")

----------------------------------------------------------------------------
(* ScoringWeights and JREITSelector                                        *)

ScoringWeights(y, nv, p, f, m) ==
    [distribution_yield |-> y, nav_ratio |-> nv, portfolio_quality |-> p,
     financial_health |-> f, market_position |-> m]

DefaultWeights ==
    ScoringWeights(Rat(25, 100), Rat(20, 100), Rat(15, 100), Rat(20, 100),
                   Rat(20, 100))

\* JREITSelector.__init__: the weights are stored as given
JREITSelector(w) == w

min_max_unshifted(v, mn, mx) ==
    [i \in 1..Len(v) |-> Div(v[i], Sub(mx, mn))]

min_max_neutral(v, mn, mx) ==
    [i \in 1..Len(v) |->
       IF mx = mn THEN Rat(1, 2) ELSE Div(Sub(v[i], mn), Sub(mx, mn))]

\* (v - min) / (max - min), row by row
min_max(v, mn, mx) ==
    [i \in 1..Len(v) |-> Div(Sub(v[i], mn), Sub(mx, mn))]

normalize_series(col) ==
    IF col.exc # "none" THEN col
    ELSE Ok(min_max(col.v, SeriesMin(col.v), SeriesMax(col.v)))

\* (df[column] - df[column].min()) / (df[column].max() - df[column].min());
\* `asc` is not used
normalize_column(df, c, asc) == normalize_series(Numeric(getitem(df, c)))

calculate_distribution_yield_score(df) == normalize_column(df, "yield", FALSE)

ideal_ratio == One

nav_distance_clamped(v, mx) ==
    [i \in 1..Len(v) |->
       IF Gt(AbsR(Sub(v[i], ideal_ratio)), mx) THEN Zero
       ELSE Sub(One, Div(AbsR(Sub(v[i], ideal_ratio)), mx))]

\* 1 - abs(nav_ratio - ideal_ratio) / nav_ratio.max(), row by row
nav_distance(v, mx) ==
    [i \in 1..Len(v) |-> Sub(One, Div(AbsR(Sub(v[i], ideal_ratio)), mx))]

nav_series(nav) ==
    IF nav.exc # "none" THEN nav
    ELSE Ok(nav_distance(nav.v, SeriesMax(nav.v)))

calculate_nav_ratio_score(df) == nav_series(Numeric(getitem(df, "nav")))

\* 1 - series
OneMinus(a) == SeriesSub(Const(One, a), a)

\* series / 2
Halved(a) == SeriesDiv(a, Const(Two, a))

\* (age_score + building_score) / 2
calculate_portfolio_quality_score(df) ==
    Halved(SeriesAdd(OneMinus(normalize_column(df, "age", TRUE)),
                 normalize_column(df, "buildings", TRUE)))

\* (ltv_score + roe_score) / 2
calculate_financial_health_score(df) ==
    Halved(SeriesAdd(OneMinus(normalize_column(df, "ltv", TRUE)),
                 normalize_column(df, "roe", TRUE)))

\* (market_cap_score + asset_size_score) / 2
calculate_market_position_score(df) ==
    Halved(SeriesAdd(normalize_column(df, "cap", TRUE),
                 normalize_column(df, "assets", TRUE)))

----------------------------------------------------------------------------
(* DataFrame operations of select_stocks                                   *)

InputColumns ==
    {"yield", "nav", "age", "buildings", "ltv", "roe", "cap", "assets"}

SubScoreColumns ==
    {"yield_score", "nav_score", "portfolio_score", "financial_score",
     "market_score"}

ScoreColumns == SubScoreColumns \cup {"total"}

DataFrame(columns, index, rows) ==
    [columns |-> columns, index |-> index, rows |-> rows]

with_column(df, c, s) ==
    DataFrame(df.columns \cup {c}, df.index,
              [i \in 1..Len(df.rows) |->
                 [k \in df.columns \cup {c} |->
                    IF k = c THEN s[i] ELSE df.rows[i][k]]])

\* result[col] = series: the column is added to (or replaced in) the frame
\* object `ref` of heap h, in place
setitem(h, ref, c, s) == [h EXCEPT ![ref] = with_column(@, c, s)]

NewId(h) == Cardinality(DOMAIN h) + 1

DataFrame_alias(h, ref) == [heap |-> h, ref |-> ref]

\* df.copy(): a new frame object with the same content
DataFrame_copy(h, ref) ==
    [heap |-> [k \in DOMAIN h \cup {NewId(h)} |->
                 IF k = NewId(h) THEN h[ref] ELSE h[k]],
     ref |-> NewId(h)]

RowOrders(n) ==
    {p \in [1..n -> 1..n] : \A i, j \in 1..n : i # j => p[i] # p[j]}

NotNaNCount(s) == Cardinality({i \in 1..Len(s) : ~IsNaN(s[i])})

\* na_position='last': the k rows whose key is not NaN come first, the NaN
\* rows follow in their original order
nan_last(s, p, k) ==
    /\ \A i \in 1..Len(s) : (i <= k) <=> ~IsNaN(s[p[i]])
    /\ \A i, j \in (k + 1)..Len(s) : i < j => p[i] < p[j]

ascending_orders(s, k) ==
    {p \in RowOrders(Len(s)) :
       /\ nan_last(s, p, k)
       /\ \A i, j \in 1..k : i < j => Leq(s[p[i]], s[p[j]])}

\* the row orders with the k keys that are not NaN first, in descending
\* order, rows with equal keys in any order
descending_orders(s, k) ==
    {p \in RowOrders(Len(s)) :
       /\ nan_last(s, p, k)
       /\ \A i, j \in 1..k : i < j => Geq(s[p[i]], s[p[j]])}

sort_values_ascending(s) == ascending_orders(s, NotNaNCount(s))

\* sort_values(by, ascending=False) with the defaults kind='quicksort',
\* na_position='last': the row orders the sort may produce.  The rows whose
\* key is not NaN come in descending key order; quicksort is not a stable
\* sort, so rows with equal keys come in any order.  The NaN rows follow in
\* their original order.
sort_values(s) == descending_orders(s, NotNaNCount(s))

\* the frame with its rows (and their labels) in the order p
take(df, p) ==
    DataFrame(df.columns, [i \in 1..Len(p) |-> df.index[p[i]]],
              [i \in 1..Len(p) |-> df.rows[p[i]]])

head_one_less(df, n) ==
    DataFrame(df.columns, SubSeq(df.index, 1, Min2(n - 1, Len(df.rows))),
              SubSeq(df.rows, 1, Min2(n - 1, Len(df.rows))))

\* head(n), n >= 0: the first n rows, all of them when there are fewer
head(df, n) ==
    DataFrame(df.columns, SubSeq(df.index, 1, Min2(n, Len(df.rows))),
              SubSeq(df.rows, 1, Min2(n, Len(df.rows))))

WeightSum(w) ==
    Add(Add(Add(Add(w.distribution_yield, w.nav_ratio), w.portfolio_quality),
            w.financial_health), w.market_position)

weighted_sum(w, y, nv, p, f, m) ==
    Add(Add(Add(Add(Mul(y, w.distribution_yield),
                    Mul(nv, w.nav_ratio)),
                Mul(p, w.portfolio_quality)),
            Mul(f, w.financial_health)),
        Mul(m, w.market_position))

composite_renormalized(w, y, nv, p, f, m) ==
    Div(weighted_sum(w, y, nv, p, f, m), WeightSum(w))

\* one row's 総合スコア from its five sub-scores
composite(w, y, nv, p, f, m) == weighted_sum(w, y, nv, p, f, m)

first_exception(y, nv, p, f, m) ==
    IF y.exc # "none" THEN Raise(y.exc)
    ELSE IF nv.exc # "none" THEN Raise(nv.exc)
    ELSE IF p.exc # "none" THEN Raise(p.exc)
    ELSE IF f.exc # "none" THEN Raise(f.exc)
    ELSE IF m.exc # "none" THEN Raise(m.exc)
    ELSE Ok([yield_score |-> y.v, nav_score |-> nv.v,
             portfolio_score |-> p.v, financial_score |-> f.v,
             market_score |-> m.v])

\* the five sub-score columns of `scores`, computed in the source's order;
\* the first exception raised ends the computation
sub_scores(df) ==
    first_exception(calculate_distribution_yield_score(df),
                    calculate_nav_ratio_score(df),
                    calculate_portfolio_quality_score(df),
                    calculate_financial_health_score(df),
                    calculate_market_position_score(df))

\* scores['総合スコア']
total_scores(w, sc) ==
    [i \in 1..Len(sc.yield_score) |->
       composite(w, sc.yield_score[i], sc.nav_score[i], sc.portfolio_score[i],
                 sc.financial_score[i], sc.market_score[i])]

\* result['総合スコア'] = ...; for col in scores.columns: result[col] = ...
attach_scores(c, total, sc) ==
    [heap |->
       setitem(setitem(setitem(setitem(setitem(setitem(
           c.heap, c.ref, "total", total),
           c.ref, "yield_score", sc.yield_score),
           c.ref, "nav_score", sc.nav_score),
           c.ref, "portfolio_score", sc.portfolio_score),
           c.ref, "financial_score", sc.financial_score),
           c.ref, "market_score", sc.market_score),
     ref |-> c.ref]

\* object ids in the caller: its input frame, and the frame it was returned
DfId == 1
RetId == 2

\* return result.sort_values('総合スコア', ascending=False).head(top_n):
\* the caller is left with its input object and the frame returned
sorted_head(c, df, top_n) ==
    {[heap |-> [k \in {DfId, RetId} |->
                  IF k = DfId THEN c.heap[df]
                  ELSE head(take(c.heap[c.ref], p), top_n)],
      ret |-> RetId, exc |-> "none"] :
       p \in sort_values(getitem(c.heap[c.ref], "total").v)}

score_and_sort(h, w, df, top_n, sc) ==
    IF sc.exc # "none"
    THEN {[heap |-> h, ret |-> 0, exc |-> sc.exc]}
    ELSE sorted_head(attach_scores(DataFrame_copy(h, df),
                                   total_scores(w, sc.v), sc.v),
                     df, top_n)

\* JREITSelector.select_stocks(df, top_n) on the frame object `df` of heap
\* h: the set of possible outcomes [heap, ret, exc].  An exception leaves
\* the heap as it was and returns nothing.
select_stocks(h, self_weights, df, top_n) ==
    score_and_sort(h, self_weights, df, top_n, sub_scores(h[df]))

----------------------------------------------------------------------------
(* Input tables                                                            *)

\* one entity; nv is the NAV ratio in units of 1/NavDen
Row(y, nv, a, b, l, r, c, s) ==
    [k \in InputColumns |->
       CASE k = "yield" -> Rat(y, 100)
         [] k = "nav" -> Rat(nv, NavDen)
         [] k = "age" -> Rat(a, 1)
         [] k = "buildings" -> Rat(b, 1)
         [] k = "ltv" -> Rat(l, 10)
         [] k = "roe" -> Rat(r, 100)
         [] k = "cap" -> Rat(c, 1)
         [] k = "assets" -> Rat(s, 1)]

\* a row with no yield on record (a NaN cell)
NoYield(row) == [row EXCEPT !["yield"] = NaN]

RowSet ==
    {Row(5, NavDen, 5, 10, 4, 8, 10, 20),
     Row(3, NavDen + 1, 15, 5, 6, 4, 5, 10),
     Row(4, 1, 10, 10, 5, 0 - 2, 20, 15),
     NoYield(Row(6, NavDen - 1, 8, 7, 3, 6, 8, 12))}

\* the sequences over S of length at most n
SeqsUpTo(S, n) == UNION {[1..k -> S] : k \in 0..n}

Table(rows) ==
    DataFrame(InputColumns, [i \in 1..Len(rows) |-> i], rows)

\* the tables that have every input column, all cells numeric
Tables == {Table(rows) : rows \in SeqsUpTo(RowSet, MaxRows)}

\* a table without column c
Drop(df, c) ==
    DataFrame(df.columns \ {c}, df.index,
              [i \in 1..Len(df.rows) |->
                 [k \in df.columns \ {c} |-> df.rows[i][k]]])

\* a table whose first row holds a str in column c
Stringify(df, c) ==
    DataFrame(df.columns, df.index,
              [i \in 1..Len(df.rows) |->
                 IF i = 1 THEN [df.rows[i] EXCEPT ![c] = Str(1)]
                 ELSE df.rows[i]])

BrokenBase ==
    LET rows == CHOOSE q \in SeqsUpTo(RowSet, 2) :
                    Len(q) = 2 /\ q[1] # q[2] /\ ~IsNaN(q[1]["yield"])
    IN  Table(rows)

BrokenTables ==
    {Drop(BrokenBase, c) : c \in InputColumns}
      \cup {Drop(Table(<<>>), c) : c \in InputColumns}
      \cup {Stringify(BrokenBase, c) : c \in InputColumns}
      \cup UNION {{Stringify(Drop(BrokenBase, c), k) :
                      k \in InputColumns \ {c}} : c \in InputColumns}

WeightChoices ==
    {DefaultWeights,
     ScoringWeights(Rat(1, 2), Rat(1, 2), Rat(1, 2), Rat(1, 2), Rat(1, 2)),
     ScoringWeights(Rat(1, 2), Rat(1, 2), Zero, Zero, Zero)}

NoSeries == Raise("unset")

\* the top_n of a call: from 1 to past the longest table
TopNs == 1..(MaxRows + 1)

----------------------------------------------------------------------------
(* The engine: a caller holding a table and a selector calls select_stocks *)

Init ==
    /\ heap \in {<<df>> : df \in Tables \cup BrokenTables}
    /\ weights \in {JREITSelector(w) : w \in WeightChoices}
    /\ ret = 0
    /\ exc = "none"
    /\ called = FALSE
    /\ last_n = 0
    /\ column = "none"
    /\ ascending = FALSE
    /\ series = NoSeries
    /\ pc = "library"
    /\ sliders = <<>>
    /\ shown = "nothing"
    /\ runs = 0

\* selected = selector.select_stocks(df, top_n=n)
SelectStocks ==
    /\ \E n \in TopNs :
         \E out \in select_stocks(heap, weights, DfId, n) :
            /\ heap' = out.heap
            /\ ret' = out.ret
            /\ exc' = out.exc
            /\ last_n' = n
    /\ called' = TRUE
    /\ UNCHANGED <<weights, column, ascending, series, pc, sliders, shown,
                   runs>>

Next == SelectStocks

Spec == Init /\ [][Next]_vars

----------------------------------------------------------------------------
(* Properties of select_stocks, checked under Spec                         *)

Input == heap[DfId]
Output == heap[RetId]
Called == called
Returned == Called /\ exc = "none" /\ ret = RetId

\* the table has the engine's eight columns and no str cell
Conforming(df) ==
    /\ InputColumns \subseteq df.columns
    /\ \A i \in 1..Len(df.rows) : \A c \in InputColumns :
          IsNumeric(df.rows[i][c])

TotalOf(df, i) == df.rows[i]["total"]

\* C1: on every table that has the engine's columns, numeric (the empty
\* table included), and every top_n >= 1, select_stocks raises nothing and
\* returns exactly min(top_n, row_count) rows.
C1_OutputLength ==
    (Called /\ Conforming(Input)) =>
        /\ Returned
        /\ Len(Output.rows) = Min2(last_n, Len(Input.rows))
        /\ Len(Output.index) = Len(Output.rows)

\* a call that truncated: more rows than top_n, and top_n rows returned
C1_Witness ==
    /\ Returned
    /\ Conforming(Input)
    /\ last_n < Len(Input.rows)
    /\ Len(Output.rows) = last_n

\* C2 as claimed: every adjacent pair of output rows has
\* composite[i] >= composite[i+1].
C2_AsClaimed ==
    Returned =>
        \A i \in 1..(Len(Output.rows) - 1) :
            Geq(TotalOf(Output, i), TotalOf(Output, i + 1))

\* C2 amended: in the returned table every adjacent pair of rows has
\* composite[i] >= composite[i+1] unless composite[i+1] is NaN: the rows
\* with a number as composite come in descending order, and the rows whose
\* composite is NaN come after all of them.
C2_SortedNaNLast ==
    Returned =>
        \A i \in 1..(Len(Output.rows) - 1) :
            \/ Geq(TotalOf(Output, i), TotalOf(Output, i + 1))
            \/ IsNaN(TotalOf(Output, i + 1))

\* the sort moved a later input row with a greater composite to the front
C2_Witness ==
    /\ Returned
    /\ Len(Output.rows) >= 2
    /\ Gt(TotalOf(Output, 1), TotalOf(Output, 2))
    /\ Output.index[1] > Output.index[2]

\* C3 as claimed: two rows of equal composite score that are both in the
\* output are in the order they had in the input table.
C3_Stable ==
    Returned =>
        \A i, j \in 1..Len(Output.rows) :
            (i < j /\ TotalOf(Output, i) = TotalOf(Output, j)) =>
                Output.index[i] < Output.index[j]

\* C5: a call of select_stocks leaves the caller's table object and the
\* selector's weights as they were, whatever calls came before; the score
\* columns are in the returned table only.
C5_InputsUnchanged ==
    /\ [][heap'[DfId] = heap[DfId] /\ weights' = weights]_vars
    /\ [](Input.columns \cap ScoreColumns = {})
    /\ [](Returned => ScoreColumns \subseteq Output.columns)

\* a call that returned a table with the score columns, from an input of
\* several rows
C5_Witness ==
    /\ Returned
    /\ Len(Input.rows) >= 2
    /\ Len(Output.rows) >= 1
    /\ ScoreColumns \subseteq Output.columns

ColumnOrder ==
    <<"yield", "nav", "age", "buildings", "ltv", "roe", "cap", "assets">>

Missing(df, c) == c \notin df.columns

HoldsStr(df, c) ==
    c \in df.columns /\ \E i \in 1..Len(df.rows) : ~IsNumeric(df.rows[i][c])

BadColumn(df, c) == Missing(df, c) \/ HoldsStr(df, c)

\* the first column, in the order the engine reads them, that is missing
\* or holds a str
FirstBad(df) ==
    ColumnOrder[CHOOSE k \in 1..Len(ColumnOrder) :
                    /\ BadColumn(df, ColumnOrder[k])
                    /\ \A m \in 1..(k - 1) : ~BadColumn(df, ColumnOrder[m])]

\* C6 as claimed: a table lacking a required column, or holding a
\* non-numeric value in one, makes select_stocks fail with a SchemaError,
\* and no table is returned.
C6_AsClaimed ==
    (Called /\ ~Conforming(Input)) => (exc = "SchemaError" /\ ret = 0)

\* C6 amended: such a table makes select_stocks fail with the exception
\* pandas raises, which reaches the caller: KeyError when the first
\* offending column is missing, TypeError when it holds a str; no table is
\* returned and no frame is created.
C6_PandasError ==
    (Called /\ ~Conforming(Input)) =>
        /\ exc = (IF Missing(Input, FirstBad(Input)) THEN "KeyError"
                  ELSE "TypeError")
        /\ ret = 0
        /\ DOMAIN heap = {DfId}

\* a call on a table that lacks a column and holds no str
C6_Witness ==
    /\ Called
    /\ \E c \in InputColumns : Missing(Input, c)
    /\ \A c \in InputColumns : ~HoldsStr(Input, c)
    /\ Len(Input.rows) > 0
    /\ exc = "KeyError"

NormalizedColumns == InputColumns \ {"nav"}

\* the sub-score a normalized column goes into
ScoreOf(c) ==
    CASE c = "yield" -> "yield_score"
      [] c \in {"age", "buildings"} -> "portfolio_score"
      [] c \in {"ltv", "roe"} -> "financial_score"
      [] c \in {"cap", "assets"} -> "market_score"

ColumnOf(df, c) == [i \in 1..Len(df.rows) |-> df.rows[i][c]]

\* max == min over the rows of column c
Degenerate(df, c) ==
    /\ Len(df.rows) >= 1
    /\ ~IsNaN(SeriesMax(ColumnOf(df, c)))
    /\ SeriesMax(ColumnOf(df, c)) = SeriesMin(ColumnOf(df, c))

\* every value of the series is NaN or infinite
NoneFinite(sr) == \A i \in 1..Len(sr) : ~IsFinite(sr[i])

\* C7: when a normalized column has max == min over the rows (a single-row
\* table included), select_stocks raises nothing and returns its rows;
\* normalize_column gives a non-finite value in every row of that column,
\* and so are the sub-score the column goes into and the composite score of
\* every returned row.
C7_DegenerateNotFinite ==
    (Called /\ Conforming(Input)) =>
        \A c \in NormalizedColumns :
            Degenerate(Input, c) =>
                /\ Returned
                /\ Len(Output.rows) = Min2(last_n, Len(Input.rows))
                /\ Len(Output.rows) >= 1
                /\ Len(normalize_column(Input, c, TRUE).v) = Len(Input.rows)
                /\ NoneFinite(normalize_column(Input, c, TRUE).v)
                /\ \A i \in 1..Len(Output.rows) :
                      /\ ~IsFinite(Output.rows[i][ScoreOf(c)])
                      /\ ~IsFinite(TotalOf(Output, i))

\* a single-row table went through select_stocks and came back
C7_Witness ==
    /\ Returned
    /\ Conforming(Input)
    /\ Len(Input.rows) = 1
    /\ Len(Output.rows) = 1
    /\ \A c \in NormalizedColumns : Degenerate(Input, c)
    /\ IsNaN(TotalOf(Output, 1))

\* the returned rows against the sub-score columns fs of the whole input
RowsCarry(fs) ==
    \A i \in 1..Len(Output.rows) :
        /\ Output.index[i] \in 1..Len(Input.rows)
        /\ \A c \in Input.columns :
              Output.rows[i][c] = Input.rows[Output.index[i]][c]
        /\ \A c \in SubScoreColumns :
              Output.rows[i][c] = fs[c][Output.index[i]]
        /\ TotalOf(Output, i) =
              Add(Add(Add(Add(
                  Mul(Output.rows[i]["yield_score"],
                      weights.distribution_yield),
                  Mul(Output.rows[i]["nav_score"], weights.nav_ratio)),
                  Mul(Output.rows[i]["portfolio_score"],
                      weights.portfolio_quality)),
                  Mul(Output.rows[i]["financial_score"],
                      weights.financial_health)),
                  Mul(Output.rows[i]["market_score"],
                      weights.market_position))

\* C9: every returned row has composite = w_yield * yield_score + w_nav *
\* nav_score + w_portfolio * portfolio_score + w_financial * financial_score
\* + w_market * market_score with the selector's weights as they are, also
\* when they do not sum to 1; its sub-scores are those of the row in the
\* whole input table; it has its input row's values, and the six score
\* columns besides.
C9_CompositeAndColumns ==
    Returned =>
        /\ Output.columns = Input.columns \cup ScoreColumns
        /\ RowsCarry(sub_scores(Input).v)

\* a truncating call with weights that do not sum to 1 whose first row has a
\* number as composite
C9_Witness ==
    /\ Returned
    /\ WeightSum(weights) # One
    /\ last_n < Len(Input.rows)
    /\ Len(Output.rows) >= 1
    /\ IsFinite(TotalOf(Output, 1))
    /\ TotalOf(Output, 1) # Zero

----------------------------------------------------------------------------
(* normalize_column on its own: one column of values, both settings of    *)
(* `ascending`                                                             *)

\* a one-column table with the given cells
ColumnTable(c, cells) ==
    DataFrame({c}, [i \in 1..Len(cells) |-> i],
              [i \in 1..Len(cells) |-> [k \in {c} |-> cells[i]]])

NormValues == {Rat(k, 1) : k \in (0 - 1)..MaxVal}

Idle ==
    /\ weights = DefaultWeights
    /\ ret = 0
    /\ exc = "none"
    /\ called = FALSE
    /\ last_n = 0
    /\ sliders = <<>>
    /\ shown = "nothing"
    /\ runs = 0

NormInit ==
    /\ column = "roe"
    /\ heap \in {<<ColumnTable(column, cells)>> :
                   cells \in SeqsUpTo(NormValues, MaxLen)}
    /\ ascending \in BOOLEAN
    /\ series = NoSeries
    /\ pc = "normalize"
    /\ Idle

\* series = selector.normalize_column(df, column, ascending)
NormalizeColumn ==
    /\ pc = "normalize"
    /\ series = NoSeries
    /\ series' = normalize_column(heap[DfId], column, ascending)
    /\ UNCHANGED <<heap, weights, ret, exc, called, last_n, column, ascending,
                   pc, sliders, shown, runs>>

NormNext == NormalizeColumn

SpecNorm == NormInit /\ [][NormNext]_vars

\* the cells of the column under test, as integers (they are whole here)
CellInts == {heap[DfId].rows[i][column].n : i \in 1..Len(heap[DfId].rows)}

IntMin(S) == CHOOSE m \in S : \A x \in S : m <= x
IntMax(S) == CHOOSE m \in S : \A x \in S : x <= m

\* C4: on a column with at least two distinct values normalize_column
\* gives every row (value - min) / (max - min), min and max over all rows:
\* a value in [0,1], 1 for the rows holding the maximum and 0 for those
\* holding the minimum, whatever `ascending` is.
C4_Normalized ==
    (pc = "normalize" /\ series # NoSeries /\ Cardinality(CellInts) >= 2) =>
        /\ series.exc = "none"
        /\ Len(series.v) = Len(heap[DfId].rows)
        /\ \A i \in 1..Len(series.v) :
              LET v == heap[DfId].rows[i][column].n
              IN  /\ series.v[i] =
                        Rat(v - IntMin(CellInts),
                            IntMax(CellInts) - IntMin(CellInts))
                  /\ Leq(Zero, series.v[i])
                  /\ Leq(series.v[i], One)
                  /\ (v = IntMax(CellInts)) => series.v[i] = One
                  /\ (v = IntMin(CellInts)) => series.v[i] = Zero

\* a column normalized with ascending=False that has its minimum, its
\* maximum and a value in between
C4_Witness ==
    /\ pc = "normalize"
    /\ series # NoSeries
    /\ ~ascending
    /\ Cardinality(CellInts) >= 2
    /\ IntMin(CellInts) < 0
    /\ \E i, j, k \in 1..Len(series.v) :
          /\ series.v[i] = Zero
          /\ series.v[j] = One
          /\ Lt(Zero, series.v[k]) /\ Lt(series.v[k], One)

----------------------------------------------------------------------------
(* calculate_nav_ratio_score on its own: NAV ratios k/NavDen > 0           *)

NavValues == {Rat(k, NavDen) : k \in 1..MaxNav}

NavTables ==
    {ColumnTable("nav", cells) : cells \in SeqsUpTo(NavValues, MaxLen)}

NavInit ==
    /\ column = "nav"
    /\ heap \in {<<df>> : df \in NavTables}
    /\ ascending = FALSE
    /\ series = NoSeries
    /\ pc = "nav_score"
    /\ Idle

\* series = selector.calculate_nav_ratio_score(df)
NavRatioScore ==
    /\ pc = "nav_score"
    /\ series = NoSeries
    /\ series' = calculate_nav_ratio_score(heap[DfId])
    /\ UNCHANGED <<heap, weights, ret, exc, called, last_n, column, ascending,
                   pc, sliders, shown, runs>>

NavNext == NavRatioScore

SpecNav == NavInit /\ [][NavNext]_vars

\* a NAV ratio in units of 1/NavDen
NavUnits(cell) == (cell.n * NavDen) \div cell.d

NavInts == {NavUnits(heap[DfId].rows[i]["nav"]) : i \in 1..Len(heap[DfId].rows)}

\* C10 as claimed: over tables with nav_ratio > 0 in every row, a row can
\* receive a NAV-ratio score above 1, and a row can receive one below 0
\* (a possibility, stated over all the tables NavInit draws from).
C10_AsClaimed ==
    pc = "nav_score" =>
    /\ \E df \in NavTables : \E i \in 1..Len(df.rows) :
          Gt(calculate_nav_ratio_score(df).v[i], One)
    /\ \E df \in NavTables : \E i \in 1..Len(df.rows) :
          Lt(calculate_nav_ratio_score(df).v[i], Zero)

\* C10 amended: calculate_nav_ratio_score returns
\* 1 - |nav_ratio - 1.0| / max(nav_ratio) per row and does not clamp it.
\* Over tables with nav_ratio > 0 in every row the score is never above 1
\* (it is 1 exactly for nav_ratio = 1.0), and it is below 0 exactly for the
\* rows with |nav_ratio - 1.0| > max(nav_ratio).
C10_NavScore ==
    (pc = "nav_score" /\ series # NoSeries) =>
        /\ series.exc = "none"
        /\ Len(series.v) = Len(heap[DfId].rows)
        /\ \A i \in 1..Len(series.v) :
              LET k == NavUnits(heap[DfId].rows[i]["nav"])
                  mx == IntMax(NavInts)
              IN  /\ series.v[i] = Rat(mx - AbsInt(k - NavDen), mx)
                  /\ Leq(series.v[i], One)
                  /\ (series.v[i] = One) <=> (k = NavDen)
                  /\ Lt(series.v[i], Zero) <=> (AbsInt(k - NavDen) > mx)

\* a row with a low NAV ratio scored below 0
C10_Witness ==
    /\ pc = "nav_score"
    /\ series # NoSeries
    /\ \E i \in 1..Len(series.v) :
          /\ Lt(heap[DfId].rows[i]["nav"], One)
          /\ Lt(series.v[i], Zero)

----------------------------------------------------------------------------
(* app.main: the Streamlit script.  Streamlit runs main() once when the    *)
(* page opens and again each time the user moves a widget.                 *)

SliderStep == 5
SliderMax == 20
TopNDefault == 5
TopNMin == 1
TopNMax == 20

\* the five weight sliders at their value= defaults, in steps of 0.05
DefaultSliders == <<5, 4, 3, 4, 4>>

\* the slider positions the user moves a weight slider to
SliderPositions == {0, 3, 4, 5, SliderMax}

\* the top_n slider settings the user chooses
TopNSettings ==
    {n \in TopNs \cup {TopNDefault} : TopNMin <= n /\ n <= TopNMax}

\* weights = ScoringWeights(distribution_yield=st.sidebar.slider(...), ...)
SliderWeights(s) ==
    ScoringWeights(Rat(s[1] * SliderStep, 100), Rat(s[2] * SliderStep, 100),
                   Rat(s[3] * SliderStep, 100), Rat(s[4] * SliderStep, 100),
                   Rat(s[5] * SliderStep, 100))

Tolerance == Rat(1, 10000)

weights_rejected_loose(total) == Gt(AbsR(Sub(total, One)), Rat(1, 10))

\* abs(total_weight - 1.0) > 0.0001
weights_rejected(total) == Gt(AbsR(Sub(total, One)), Tolerance)

\* what fetch_data() returns when it does not raise
AppTables == {df \in Tables : Len(df.rows) = 2}

AppInit ==
    /\ pc = "start"
    /\ sliders = DefaultSliders
    /\ last_n = TopNDefault
    /\ heap = <<>>
    /\ weights = DefaultWeights
    /\ ret = 0
    /\ exc = "none"
    /\ called = FALSE
    /\ shown = "nothing"
    /\ runs = 1
    /\ column = "none"
    /\ ascending = FALSE
    /\ series = NoSeries

\* if abs(total_weight - 1.0) > 0.0001: st.sidebar.error(...); return
RejectWeights ==
    /\ pc = "start"
    /\ weights_rejected(WeightSum(SliderWeights(sliders)))
    /\ shown' = "weight_error"
    /\ pc' = "returned"
    /\ UNCHANGED <<heap, weights, ret, exc, called, last_n, column, ascending,
                   series, sliders, runs>>

AcceptWeights ==
    /\ pc = "start"
    /\ ~weights_rejected(WeightSum(SliderWeights(sliders)))
    /\ pc' = "fetch"
    /\ UNCHANGED <<heap, weights, ret, exc, called, last_n, column, ascending,
                   series, sliders, shown, runs>>

\* df = fetch_data()
FetchData ==
    /\ pc = "fetch"
    /\ \E df \in AppTables : heap' = <<df>>
    /\ pc' = "select"
    /\ UNCHANGED <<weights, ret, exc, called, last_n, column, ascending,
                   series, sliders, shown, runs>>

\* except Exception as e: st.error(...); return
FetchFails ==
    /\ pc = "fetch"
    /\ shown' = "fetch_error"
    /\ pc' = "returned"
    /\ UNCHANGED <<heap, weights, ret, exc, called, last_n, column, ascending,
                   series, sliders, runs>>

\* selector = JREITSelector(weights)
\* selected_stocks = selector.select_stocks(df, top_n=top_n)
RunSelector ==
    /\ pc = "select"
    /\ weights' = JREITSelector(SliderWeights(sliders))
    /\ \E out \in select_stocks(heap, JREITSelector(SliderWeights(sliders)),
                                DfId, last_n) :
          /\ heap' = out.heap
          /\ ret' = out.ret
          /\ exc' = out.exc
          /\ pc' = IF out.exc = "none" THEN "display" ELSE "raised"
    /\ called' = TRUE
    /\ UNCHANGED <<last_n, column, ascending, series, sliders, shown, runs>>

\* st.dataframe(basic_info); st.dataframe(score_info)
Display ==
    /\ pc = "display"
    /\ shown' = "results"
    /\ pc' = "returned"
    /\ UNCHANGED <<heap, weights, ret, exc, called, last_n, column, ascending,
                   series, sliders, runs>>

\* the user moves one weight slider and the script runs again
MoveWeightSlider ==
    /\ pc = "returned"
    /\ runs < MaxRuns
    /\ \E k \in 1..5 : \E v \in SliderPositions \ {sliders[k]} :
          sliders' = [sliders EXCEPT ![k] = v]
    /\ pc' = "start"
    /\ heap' = <<>>
    /\ ret' = 0
    /\ shown' = "nothing"
    /\ runs' = runs + 1
    /\ UNCHANGED <<weights, exc, called, last_n, column, ascending, series>>

\* the user moves the top_n slider (it is on the page once the data was
\* fetched) and the script runs again
MoveTopNSlider ==
    /\ pc = "returned"
    /\ shown = "results"
    /\ runs < MaxRuns
    /\ \E n \in TopNSettings \ {last_n} : last_n' = n
    /\ pc' = "start"
    /\ heap' = <<>>
    /\ ret' = 0
    /\ shown' = "nothing"
    /\ runs' = runs + 1
    /\ UNCHANGED <<weights, exc, called, sliders, column, ascending, series>>

AppNext ==
    \/ RejectWeights
    \/ AcceptWeights
    \/ FetchData
    \/ FetchFails
    \/ RunSelector
    \/ Display
    \/ MoveWeightSlider
    \/ MoveTopNSlider

SpecApp == AppInit /\ [][AppNext]_vars

WithinTolerance(w) == Leq(AbsR(Sub(WeightSum(w), One)), Tolerance)

\* C8: main never calls select_stocks with weights whose sum is further
\* than 1e-4 from 1.0: in a run with such slider weights it shows the error
\* and returns with no data fetched, no selector made and no call; the
\* selector takes the weights it is given as they are.
C8_WeightsChecked ==
    /\ called => WithinTolerance(weights)
    /\ pc \in {"fetch", "select", "display", "raised"} =>
          WithinTolerance(SliderWeights(sliders))
    /\ (heap # <<>> \/ ret # 0) => WithinTolerance(SliderWeights(sliders))
    /\ (pc = "returned" /\ ~WithinTolerance(SliderWeights(sliders))) =>
          /\ shown = "weight_error"
          /\ heap = <<>>
          /\ ret = 0
    /\ pc = "display" => weights = SliderWeights(sliders)

\* a run that was rejected after an earlier run had shown results
C8_Witness ==
    /\ pc = "returned"
    /\ shown = "weight_error"
    /\ ~WithinTolerance(SliderWeights(sliders))
    /\ called
    /\ heap = <<>>

====
